---- MODULE Spec2Model ----
(***************************************************************************)
(* neurograph-rag: the FAISS-backed VectorStore with its persistence, the  *)
(* document-processing pipeline that feeds it (chunker and embedding retry *)
(* included), the chat container's conversation history and stream reader, *)
(* the context the chat service builds from history and retrieved chunks,  *)
(* and the upload list with the upload, analyze and status endpoints.      *)
(*                                                                         *)
(* Abstractions.  An embedding is [dim, dir, mag]: its dimension, its      *)
(* direction (a multiple of 90 degrees on the unit circle) and its         *)
(* length.  A chunk text is a natural number.  Token counts and upload     *)
(* dates are left out of the records: no behaviour depends on them.  The   *)
(* HNSW search is taken to be exact, equal distances in index order.       *)
(* VectorStore takes no lock, so the steps of a writer are separate        *)
(* actions and a search may run between any two of them.  In the chunker   *)
(* a text is a sequence of characters, and similarity scores are whole     *)
(* numbers (1, 0, -1), so the 0.7 threshold is compared in tenths.         *)
(***************************************************************************)
EXTENDS Integers, Sequences, FiniteSets, TLC

VARIABLES
  index,        \* VectorStore.index: the stored (normalized) vectors, in insertion order
  chunks,       \* VectorStore.chunks
  metadata,     \* VectorStore.metadata
  diskIndex,    \* index.faiss
  diskChunks,   \* chunks.json
  diskMeta,     \* metadata.json
  pc,           \* position of the writer (process_document / delete_document)
  op,           \* locals of the running writer call
  seen,         \* the latest search since the writer last moved: where the writer was, how it ended
  deleted,      \* history: documents whose delete_document completed, not added again since
  pre,          \* history: the store as delete_document found it
  saved,        \* history: the latest writer call that changed the store completed its _save_all
  committed,    \* history: the three files as the latest completed _save_all left them
  maxId,        \* history: largest chunk id assigned so far, -1 if none
  failedDocs,   \* history: documents not stored whose latest process_document run died in embedding,
                \* with the number of chunks embedded before that
  nOps,         \* writer calls and restarts so far
  outcome,      \* how the latest writer call ended, result "none" while it runs
  messages,     \* ChatContainer.messages
  isLoading,    \* ChatContainer.isLoading
  chatPc,       \* position of handleSend
  request,      \* body of the /api/chat/stream request in flight
  context,      \* what stream_chat_response hands to generation
  clock,        \* Date.now(), advanced by every user event
  timers,       \* the placeholders whose 300 ms timer is still pending
  assistantId,  \* handleSend's assistantId
  activeFileId, \* ChatContainer.activeFileId, "" for null
  nContent,     \* content events the server has sent on the open stream
  nUploads,     \* documents reported ready so far
  nSends,       \* queries sent so far
  full_text,    \* the text DocumentParser.parse extracted, a sequence of characters
  produced,     \* what chunk_text returned for it
  chunkPc,      \* position of the chunk_text call
  retryPc,      \* position of the embed_with_retry call
  attempt_number, \* tenacity's retry_state.attempt_number
  tried,        \* history: how each attempt of the call ended
  sleepLeft,    \* seconds left of the wait between two attempts
  retryTexts,   \* the texts of the call
  retryResult,  \* what the call gave its caller
  nCalls,       \* embed_with_retry calls so far
  events,       \* history: the data events the server wrote to the response
  reads,        \* the pieces of the response body reader.read() has still to return
  files,        \* DocumentUpload.files
  uploadTasks,  \* the handleFileUpload calls made so far, the running ones with their locals
  uploadDir,    \* the file ids present in UPLOAD_DIR
  analysis,     \* per file id, how far POST /api/analyze and its background task got
  served,       \* history: the upload and analyze requests the backend answered, in order
  observed,     \* history: the file ids a status poll saw completed
  notified      \* history: the onFileUploaded calls

storeVars == <<index, chunks, metadata, diskIndex, diskChunks, diskMeta, pc, op, seen,
               deleted, pre, saved, committed, maxId, failedDocs, nOps, outcome>>
chatVars == <<messages, isLoading, chatPc, request, context, clock, timers, assistantId,
              activeFileId, nContent, nUploads, nSends>>
chunkerVars == <<full_text, produced, chunkPc>>
retryVars == <<retryPc, attempt_number, tried, sleepLeft, retryTexts, retryResult, nCalls>>
readerVars == <<events, reads>>
uploadVars == <<files, uploadTasks, uploadDir, analysis, served, observed, notified>>
vars == <<storeVars, chatVars, chunkerVars, retryVars, readerVars, uploadVars>>

----------------------------------------------------------------------------
(* Bounds *)
MaxOps == 3
MaxTopK == 2

(* Program constants *)
Dimension == 1536
BATCH_SIZE == 16

FileIds == {"d0", "d1", "d2", "d3"}

Min(a, b) == IF a < b THEN a ELSE b

\* The chunk texts TextChunker.chunk_text yields for each uploaded file:
\* d0 is whitespace only, d3 needs two embedding batches.
DocChunks(f) ==
  CASE f = "d0" -> <<>>
    [] f = "d1" -> <<0>>
    [] f = "d2" -> <<1, 2>>
    [] OTHER    -> [i \in 1..(BATCH_SIZE + 1) |-> 2 + i]

\* EmbeddingService.embed_texts for one text: a 1536-dimensional vector.
EmbedText(t) == [dim |-> Dimension, dir |-> t % 4, mag |-> 1 + (t % 2)]

EmbedTexts(texts) == [i \in 1..Len(texts) |-> EmbedText(texts[i])]

\* faiss.normalize_L2
NormalizeL2(v) == [v EXCEPT !.mag = 1]

\* cos of the angle between two directions, for unit vectors
Cos(a, b) ==
  LET d == (a - b + 4) % 4
  IN  CASE d = 0 -> 1 [] d = 2 -> -1 [] OTHER -> 0

\* squared L2 distance between unit vectors, as IndexHNSWFlat reports it
L2Sq(u, v) == 2 - 2 * Cos(u.dir, v.dir)

----------------------------------------------------------------------------
(* VectorStore: pure parts *)

NoFile == [exists |-> FALSE]

EmptyMetadata == [documents |-> <<>>]

\* positions of the index (1-based) whose vector is at squared distance d of q
AtDistance(idx, q, d) ==
  SelectSeq([i \in 1..Len(idx) |-> i], LAMBDA i : L2Sq(idx[i], q) = d)

\* index.search(query, k): the k nearest positions, nearest first
IndexSearch(idx, q, k) ==
  SubSeq(AtDistance(idx, q, 0) \o AtDistance(idx, q, 2) \o AtDistance(idx, q, 4), 1, k)

\* the result loop of search: hits are index positions, file_ids = {} stands for None / []
RECURSIVE BuildResults(_, _, _, _, _, _)
BuildResults(hits, idx, chs, q, top_k, file_ids) ==
  IF hits = <<>> THEN [error |-> "none", results |-> <<>>]
  ELSE LET i == Head(hits) IN
    IF i > Len(chs) THEN [error |-> "IndexError", results |-> <<>>]
    ELSE IF file_ids # {} /\ chs[i].file_id \notin file_ids
      THEN BuildResults(Tail(hits), idx, chs, q, top_k, file_ids)
      ELSE LET r == [content |-> chs[i].content,
                     score |-> 1 - (L2Sq(idx[i], q) \div 2),
                     file_id |-> chs[i].file_id,
                     chunk_index |-> chs[i].chunk_index]
           IN IF top_k <= 1 THEN [error |-> "none", results |-> <<r>>]
              ELSE LET rest == BuildResults(Tail(hits), idx, chs, q, top_k - 1, file_ids)
                   IN  [error |-> rest.error,
                        results |-> IF rest.error = "none" THEN <<r>> \o rest.results ELSE <<>>]

\* a search without the early return: index.search is then called with k = 0
\* on an empty index, which FAISS rejects
Search_NoEmptyCheck(idx, chs, query, top_k, file_ids) ==
  LET q == NormalizeL2(query)
      k == Min(IF file_ids # {} THEN top_k * 10 ELSE top_k, Len(idx))
  IN  IF k = 0 THEN [error |-> "RuntimeError", results |-> <<>>]
      ELSE BuildResults(IndexSearch(idx, q, k), idx, chs, q, top_k, file_ids)

\* VectorStore.search
Search(idx, chs, query, top_k, file_ids) ==
  IF Len(idx) = 0 THEN [error |-> "none", results |-> <<>>]
  ELSE LET q == NormalizeL2(query)
           k == Min(IF file_ids # {} THEN top_k * 10 ELSE top_k, Len(idx))
       IN  BuildResults(IndexSearch(idx, q, k), idx, chs, q, top_k, file_ids)

\* VectorStore.get_document_status
GetDocumentStatus(meta, f) ==
  IF f \in DOMAIN meta.documents
    THEN [status |-> "completed", chunks_count |-> meta.documents[f].num_chunks]
    ELSE [status |-> "not_found", chunks_count |-> 0]

\* the chunk records add_chunks appends
NewRecords(chs, f, texts) ==
  [i \in 1..Len(texts) |->
     [id |-> Len(chs) + (i - 1), file_id |-> f, content |-> texts[i], chunk_index |-> i - 1]]

\* metadata["documents"][file_id] = {...}
PutDocument(meta, f, n) ==
  [documents |-> [d \in (DOMAIN meta.documents) \cup {f} |->
     IF d = f THEN [filename |-> f, num_chunks |-> n] ELSE meta.documents[d]]]

\* del metadata["documents"][file_id]
DelDocument(meta, f) ==
  [documents |-> [d \in (DOMAIN meta.documents) \ {f} |-> meta.documents[d]]]

\* a filter that drops only the first chunk of the document
RemainingChunks_FirstOnly(chs, f) ==
  SelectSeq(chs, LAMBDA c : c.file_id # f \/ c.chunk_index > 0)

\* delete_document: [c for c in self.chunks if c["file_id"] != file_id]
RemainingChunks(chs, f) == SelectSeq(chs, LAMBDA c : c.file_id # f)

\* the three files _save_all writes
IndexFile(idx) == [exists |-> TRUE, vectors |-> idx]
ChunksFile(chs) == [exists |-> TRUE, chunks |-> chs]
MetaFile(meta) == [exists |-> TRUE, documents |-> meta.documents]

\* a load that reads the chunk list under a wrong key and so finds none
LoadStore_NoChunks(fIndex, fChunks, fMeta) ==
  IF fIndex.exists
    THEN [index |-> fIndex.vectors,
          chunks |-> <<>>,
          metadata |-> IF fMeta.exists THEN [documents |-> fMeta.documents] ELSE EmptyMetadata]
    ELSE [index |-> <<>>, chunks |-> <<>>, metadata |-> EmptyMetadata]

\* __init__ followed by _initialize_index, _load_chunks, _load_metadata
LoadStore(fIndex, fChunks, fMeta) ==
  IF fIndex.exists
    THEN [index |-> fIndex.vectors,
          chunks |-> IF fChunks.exists THEN fChunks.chunks ELSE <<>>,
          metadata |-> IF fMeta.exists THEN [documents |-> fMeta.documents] ELSE EmptyMetadata]
    ELSE [index |-> <<>>, chunks |-> <<>>, metadata |-> EmptyMetadata]

\* add_chunks as one call that completes: index.add, the append loop, the metadata entry
AddChunks(store, f) ==
  LET texts == DocChunks(f)
      embs == EmbedTexts(texts)
  IN  [index |-> store.index \o [j \in 1..Len(embs) |-> NormalizeL2(embs[j])],
       chunks |-> store.chunks \o NewRecords(store.chunks, f, texts),
       metadata |-> PutDocument(store.metadata, f, Len(texts))]

\* the store after process_document has stored the documents docs, in this order
RECURSIVE StoreWith(_)
StoreWith(docs) ==
  IF docs = <<>> THEN [index |-> <<>>, chunks |-> <<>>, metadata |-> EmptyMetadata]
  ELSE AddChunks(StoreWith(SubSeq(docs, 1, Len(docs) - 1)), docs[Len(docs)])

----------------------------------------------------------------------------
(* Initial state: nothing on disk, a freshly constructed VectorStore, an empty chat *)

NoOp == [kind |-> "none", file_id |-> "", texts |-> <<>>, i |-> 0, embs |-> <<>>,
         remaining |-> <<>>]

NoOutcome == [call |-> "none", result |-> "none"]

NotSeen == [at |-> "none", error |-> "none", results |-> 0]

NoSnapshot == [taken |-> FALSE, index |-> <<>>, chunks |-> <<>>, file_id |-> ""]

DiskTriple == <<diskIndex, diskChunks, diskMeta>>

NoId == [kind |-> "none", t |-> 0]

NoRequest == [sent |-> FALSE, query |-> "", history |-> <<>>, file_ids |-> {}, before |-> <<>>]

NoContext == [built |-> FALSE, recap |-> "", history |-> [n |-> 0, rows |-> <<>>],
              chunks |-> <<>>, content |-> [n |-> 0, rows |-> <<>>], query |-> ""]

StoreInit ==
  /\ index = <<>> /\ chunks = <<>> /\ metadata = EmptyMetadata
  /\ diskIndex = NoFile /\ diskChunks = NoFile /\ diskMeta = NoFile
  /\ pc = "idle" /\ op = NoOp /\ seen = NotSeen
  /\ deleted = {} /\ pre = NoSnapshot
  /\ saved = FALSE /\ committed = <<NoFile, NoFile, NoFile>>
  /\ maxId = -1 /\ failedDocs = {}
  /\ nOps = 0 /\ outcome = NoOutcome

ChatInit ==
  /\ messages = <<>> /\ isLoading = FALSE /\ chatPc = "idle"
  /\ request = NoRequest
  /\ context = NoContext
  /\ clock = 0 /\ timers = {} /\ assistantId = NoId /\ activeFileId = ""
  /\ nContent = 0 /\ nUploads = 0 /\ nSends = 0

ChunkerInit == full_text = <<>> /\ produced = <<>> /\ chunkPc = "idle"

RetryInit ==
  /\ retryPc = "idle" /\ attempt_number = 0 /\ tried = <<>> /\ sleepLeft = 0
  /\ retryTexts = <<>> /\ retryResult = <<>> /\ nCalls = 0

ReaderInit == events = <<>> /\ reads = <<>>

\* the documents a user uploads
Docs == {"d1", "d2"}

UploadInit ==
  /\ files = <<>> /\ uploadTasks = <<>> /\ uploadDir = {}
  /\ analysis = [f \in Docs |-> "none"]
  /\ served = <<>> /\ observed = <<>> /\ notified = <<>>

Init == StoreInit /\ ChatInit /\ ChunkerInit /\ RetryInit /\ ReaderInit /\ UploadInit

----------------------------------------------------------------------------
(* process_document *)

\* DocumentParser.parse raises
ParseFail ==
  /\ pc = "idle" /\ nOps < MaxOps
  /\ nOps' = nOps + 1
  /\ seen' = NotSeen /\ pre' = NoSnapshot
  /\ outcome' = [call |-> "process", result |-> "raised"]
  /\ UNCHANGED <<index, chunks, metadata, diskIndex, diskChunks, diskMeta, pc, op,
                 deleted, saved, committed, maxId, failedDocs>>
  /\ UNCHANGED <<chatVars, chunkerVars, retryVars, readerVars, uploadVars>>

\* parse and chunk_text; "if not chunks: return"
ProcessStart(f) ==
  /\ pc = "idle" /\ nOps < MaxOps
  /\ nOps' = nOps + 1
  /\ seen' = NotSeen /\ pre' = NoSnapshot
  /\ IF DocChunks(f) = <<>>
       THEN UNCHANGED <<pc, op>>
       ELSE /\ pc' = "embed"
            /\ op' = [NoOp EXCEPT !.kind = "add", !.file_id = f, !.texts = DocChunks(f)]
  /\ outcome' = [call |-> "process",
                 result |-> IF DocChunks(f) = <<>> THEN "returned" ELSE "none"]
  /\ UNCHANGED <<index, chunks, metadata, diskIndex, diskChunks, diskMeta,
                 deleted, saved, committed, maxId, failedDocs>>
  /\ UNCHANGED <<chatVars, chunkerVars, retryVars, readerVars, uploadVars>>

\* one turn of the batch loop: embed_texts(chunks[i:i+BATCH_SIZE]) returns
EmbedBatch ==
  /\ pc = "embed"
  /\ LET batch == SubSeq(op.texts, op.i + 1, Min(op.i + BATCH_SIZE, Len(op.texts)))
     IN  op' = [op EXCEPT !.embs = op.embs \o EmbedTexts(batch), !.i = op.i + BATCH_SIZE]
  /\ pc' = IF op.i + BATCH_SIZE >= Len(op.texts) THEN "add_index" ELSE "embed"
  /\ seen' = NotSeen
  /\ UNCHANGED <<index, chunks, metadata, diskIndex, diskChunks, diskMeta,
                 deleted, pre, saved, committed, maxId, failedDocs, nOps, outcome>>
  /\ UNCHANGED <<chatVars, chunkerVars, retryVars, readerVars, uploadVars>>

\* a pipeline that stores every batch as it is embedded and leaves it there on failure
EmbedFail_KeepsPartial ==
  /\ pc = "embed"
  /\ pc' = "idle" /\ op' = NoOp
  /\ index' = index \o [j \in 1..Len(op.embs) |-> NormalizeL2(op.embs[j])]
  /\ chunks' = chunks \o NewRecords(chunks, op.file_id, SubSeq(op.texts, 1, Len(op.embs)))
  /\ failedDocs' = IF \E j \in 1..Len(chunks) : chunks[j].file_id = op.file_id
                     THEN failedDocs
                     ELSE failedDocs \cup {[file_id |-> op.file_id, embedded |-> op.i]}
  /\ seen' = NotSeen
  /\ outcome' = [outcome EXCEPT !.result = "raised"]
  /\ UNCHANGED <<metadata, diskIndex, diskChunks, diskMeta,
                 deleted, pre, saved, committed, maxId, nOps>>
  /\ UNCHANGED <<chatVars, chunkerVars, retryVars, readerVars, uploadVars>>

\* one turn of the batch loop: embed_texts raises, process_document re-raises
EmbedFail ==
  /\ pc = "embed"
  /\ pc' = "idle" /\ op' = NoOp
  /\ failedDocs' = IF \E j \in 1..Len(chunks) : chunks[j].file_id = op.file_id
                     THEN failedDocs ELSE failedDocs \cup {[file_id |-> op.file_id, embedded |-> op.i]}
  /\ seen' = NotSeen
  /\ outcome' = [outcome EXCEPT !.result = "raised"]
  /\ UNCHANGED <<index, chunks, metadata, diskIndex, diskChunks, diskMeta,
                 deleted, pre, saved, committed, maxId, nOps>>
  /\ UNCHANGED <<chatVars, chunkerVars, retryVars, readerVars, uploadVars>>

----------------------------------------------------------------------------
(* VectorStore.add_chunks *)

\* embeddings a caller of add_chunks can pass for texts: one row too many, or
\* rows of another model's dimension
Misshapen(texts, shape) ==
  CASE shape = "count" -> EmbedTexts(texts) \o <<EmbedText(0)>>
    [] shape = "dimension" -> [j \in 1..Len(texts) |-> [EmbedText(texts[j]) EXCEPT !.dim = 3072]]
    [] OTHER -> [j \in 1..(Len(texts) + 1) |-> [EmbedText(0) EXCEPT !.dim = 3072]]

\* add_chunks called directly (not by process_document) with embeddings that
\* do not fit the chunks or the index
AddChunksCall(f, shape) ==
  /\ pc = "idle" /\ nOps < MaxOps
  /\ nOps' = nOps + 1
  /\ DocChunks(f) # <<>>
  /\ pc' = "add_index"
  /\ op' = [NoOp EXCEPT !.kind = "add", !.file_id = f, !.texts = DocChunks(f),
                        !.embs = Misshapen(DocChunks(f), shape)]
  /\ seen' = NotSeen /\ pre' = NoSnapshot
  /\ outcome' = [call |-> "add", result |-> "none"]
  /\ UNCHANGED <<index, chunks, metadata, diskIndex, diskChunks, diskMeta,
                 deleted, saved, committed, maxId, failedDocs>>
  /\ UNCHANGED <<chatVars, chunkerVars, retryVars, readerVars, uploadVars>>

\* a count check that only notices missing embeddings
CountMismatch_FewerOnly(texts, embs) == Len(embs) < Len(texts)

\* embeddings.shape[0] != len(chunks)
CountMismatch(texts, embs) == Len(embs) # Len(texts)

\* embeddings.shape[1] != self.dimension
DimensionMismatch(embs) == \E j \in 1..Len(embs) : embs[j].dim # Dimension

\* one of the two shape checks raises ValueError
AddReject ==
  /\ pc = "add_index"
  /\ CountMismatch(op.texts, op.embs) \/ DimensionMismatch(op.embs)
  /\ pc' = "idle" /\ op' = NoOp
  /\ seen' = NotSeen
  /\ outcome' = [outcome EXCEPT !.result = "raised"]
  /\ UNCHANGED <<index, chunks, metadata, diskIndex, diskChunks, diskMeta,
                 deleted, pre, saved, committed, maxId, failedDocs, nOps>>
  /\ UNCHANGED <<chatVars, chunkerVars, retryVars, readerVars, uploadVars>>

\* the two shape checks, normalize_L2 and index.add
AddIndex ==
  /\ pc = "add_index"
  /\ ~CountMismatch(op.texts, op.embs)
  /\ ~DimensionMismatch(op.embs)
  /\ index' = index \o [j \in 1..Len(op.embs) |-> NormalizeL2(op.embs[j])]
  /\ pc' = "add_records"
  /\ saved' = FALSE
  /\ deleted' = deleted \ {op.file_id}
  /\ failedDocs' = {x \in failedDocs : x.file_id # op.file_id}
  /\ seen' = NotSeen
  /\ UNCHANGED <<chunks, metadata, diskIndex, diskChunks, diskMeta, op,
                 pre, committed, maxId, nOps, outcome>>
  /\ UNCHANGED <<chatVars, chunkerVars, retryVars, readerVars, uploadVars>>

\* the append loop and the metadata update
AddRecords ==
  /\ pc = "add_records"
  /\ chunks' = chunks \o NewRecords(chunks, op.file_id, op.texts)
  /\ metadata' = PutDocument(metadata, op.file_id, Len(op.texts))
  /\ maxId' = IF Len(chunks) + Len(op.texts) - 1 > maxId
                THEN Len(chunks) + Len(op.texts) - 1 ELSE maxId
  /\ pc' = "save_index"
  /\ seen' = NotSeen
  /\ UNCHANGED <<index, diskIndex, diskChunks, diskMeta, op,
                 deleted, pre, saved, committed, failedDocs, nOps, outcome>>
  /\ UNCHANGED <<chatVars, chunkerVars, retryVars, readerVars, uploadVars>>

----------------------------------------------------------------------------
(* VectorStore._save_all, one action per file; each write may raise *)

SaveIndex ==
  /\ pc = "save_index"
  /\ diskIndex' = IndexFile(index)
  /\ pc' = "save_chunks"
  /\ seen' = NotSeen
  /\ UNCHANGED <<index, chunks, metadata, diskChunks, diskMeta, op,
                 deleted, pre, saved, committed, maxId, failedDocs, nOps, outcome>>
  /\ UNCHANGED <<chatVars, chunkerVars, retryVars, readerVars, uploadVars>>

SaveChunks ==
  /\ pc = "save_chunks"
  /\ diskChunks' = ChunksFile(chunks)
  /\ pc' = "save_meta"
  /\ seen' = NotSeen
  /\ UNCHANGED <<index, chunks, metadata, diskIndex, diskMeta, op,
                 deleted, pre, saved, committed, maxId, failedDocs, nOps, outcome>>
  /\ UNCHANGED <<chatVars, chunkerVars, retryVars, readerVars, uploadVars>>

\* the last write succeeds and the writer call returns
SaveMeta ==
  /\ pc = "save_meta"
  /\ diskMeta' = MetaFile(metadata)
  /\ saved' = TRUE
  /\ committed' = <<diskIndex, diskChunks, MetaFile(metadata)>>
  /\ pc' = "idle" /\ op' = NoOp
  /\ deleted' = IF op.kind = "delete" THEN deleted \cup {op.file_id} ELSE deleted
  /\ seen' = NotSeen
  /\ outcome' = [outcome EXCEPT !.result = "returned"]
  /\ UNCHANGED <<index, chunks, metadata, diskIndex, diskChunks,
                 pre, maxId, failedDocs, nOps>>
  /\ UNCHANGED <<chatVars, chunkerVars, retryVars, readerVars, uploadVars>>

\* a write of _save_all raises (disk error): the exception leaves the writer call
SaveFail ==
  /\ pc \in {"save_index", "save_chunks", "save_meta"}
  /\ pc' = "idle" /\ op' = NoOp
  /\ seen' = NotSeen
  /\ outcome' = [outcome EXCEPT !.result = "raised"]
  /\ UNCHANGED <<index, chunks, metadata, diskIndex, diskChunks, diskMeta,
                 deleted, pre, saved, committed, maxId, failedDocs, nOps>>
  /\ UNCHANGED <<chatVars, chunkerVars, retryVars, readerVars, uploadVars>>

----------------------------------------------------------------------------
(* VectorStore.delete_document and _rebuild_index *)

\* the filter, the early return and the metadata removal
DeleteStart(f) ==
  /\ pc = "idle" /\ nOps < MaxOps
  /\ nOps' = nOps + 1
  /\ seen' = NotSeen
  /\ IF Len(RemainingChunks(chunks, f)) = Len(chunks)
       THEN /\ pre' = NoSnapshot
            /\ saved' = saved
            /\ outcome' = [call |-> "delete", result |-> "returned"]
            /\ UNCHANGED <<pc, op, metadata>>
       ELSE /\ metadata' = IF f \in DOMAIN metadata.documents
                             THEN DelDocument(metadata, f) ELSE metadata
            /\ op' = [NoOp EXCEPT !.kind = "delete", !.file_id = f,
                                  !.remaining = RemainingChunks(chunks, f)]
            /\ pre' = [taken |-> TRUE, index |-> index, chunks |-> chunks, file_id |-> f]
            /\ pc' = "rebuild_index"
            /\ saved' = FALSE
            /\ outcome' = [call |-> "delete", result |-> "none"]
  /\ UNCHANGED <<index, chunks, diskIndex, diskChunks, diskMeta,
                 deleted, committed, maxId, failedDocs>>
  /\ UNCHANGED <<chatVars, chunkerVars, retryVars, readerVars, uploadVars>>

\* self.index = new_index: an empty IndexHNSWFlat, no vector is added back
RebuildIndex ==
  /\ pc = "rebuild_index"
  /\ index' = <<>>
  /\ pc' = "rebuild_chunks"
  /\ seen' = NotSeen
  /\ UNCHANGED <<chunks, metadata, diskIndex, diskChunks, diskMeta, op,
                 deleted, pre, saved, committed, maxId, failedDocs, nOps, outcome>>
  /\ UNCHANGED <<chatVars, chunkerVars, retryVars, readerVars, uploadVars>>

\* self.chunks = chunks
RebuildChunks ==
  /\ pc = "rebuild_chunks"
  /\ chunks' = op.remaining
  /\ pc' = "save_index"
  /\ seen' = NotSeen
  /\ UNCHANGED <<index, metadata, diskIndex, diskChunks, diskMeta, op,
                 deleted, pre, saved, committed, maxId, failedDocs, nOps, outcome>>
  /\ UNCHANGED <<chatVars, chunkerVars, retryVars, readerVars, uploadVars>>

----------------------------------------------------------------------------
(* Readers and restarts *)

Queries == {[dim |-> Dimension, dir |-> d, mag |-> 2] : d \in 0..1}

FileFilters == {{}, {"d1"}, {"d2", "d3"}}

\* a request thread calls search while the writer is wherever it is; search
\* changes nothing in the store, and the first call after a writer step is the
\* one that is recorded
SearchStep(q, top_k, file_ids) ==
  /\ seen = NotSeen
  /\ LET out == Search(index, chunks, q, top_k, file_ids)
     IN  seen' = [at |-> pc, error |-> out.error, results |-> Len(out.results)]
  /\ UNCHANGED <<index, chunks, metadata, diskIndex, diskChunks, diskMeta, pc, op,
                 deleted, pre, saved, committed, maxId, failedDocs, nOps, outcome>>
  /\ UNCHANGED <<chatVars, chunkerVars, retryVars, readerVars, uploadVars>>

\* the process stops and is started again: get_vector_store() builds a VectorStore from disk
Restart ==
  /\ nOps < MaxOps
  /\ nOps' = nOps + 1
  /\ LET s == LoadStore(diskIndex, diskChunks, diskMeta)
     IN  /\ index' = s.index
         /\ chunks' = s.chunks
         /\ metadata' = s.metadata
         /\ failedDocs' = {x \in failedDocs :
                             \A j \in 1..Len(s.chunks) : s.chunks[j].file_id # x.file_id}
  /\ pc' = "idle" /\ op' = NoOp /\ seen' = NotSeen /\ pre' = NoSnapshot
  /\ outcome' = NoOutcome
  /\ UNCHANGED <<diskIndex, diskChunks, diskMeta,
                 deleted, saved, committed, maxId>>
  /\ UNCHANGED <<chatVars, chunkerVars, retryVars, readerVars, uploadVars>>

NextStore ==
  \/ ParseFail
  \/ \E f \in FileIds : ProcessStart(f)
  \/ EmbedBatch
  \/ EmbedFail
  \/ \E f \in {"d2"}, shape \in {"count", "dimension", "both"} : AddChunksCall(f, shape)
  \/ AddReject
  \/ AddIndex
  \/ AddRecords
  \/ SaveIndex
  \/ SaveChunks
  \/ SaveMeta
  \/ SaveFail
  \/ \E f \in FileIds : DeleteStart(f)
  \/ RebuildIndex
  \/ RebuildChunks
  \/ \E q \in Queries, k \in {1, MaxTopK}, fs \in FileFilters : SearchStep(q, k, fs)
  \/ Restart

StoreSpec == Init /\ [][NextStore]_vars

TypeOK == pc \in {"idle", "embed", "add_index", "add_records", "save_index", "save_chunks",
                  "save_meta", "rebuild_index", "rebuild_chunks"}

----------------------------------------------------------------------------
(* Properties of the VectorStore *)

\* every search a caller can make in the current state
AllSearches ==
  {Search(index, chunks, q, k, fs) : q \in Queries, k \in 1..MaxTopK, fs \in FileFilters}

\* the file ids of the chunks some search returns in the current state
Searchable ==
  {out.results[i].file_id : <<out, i>> \in
     {<<o, j>> \in AllSearches \X (1..MaxTopK) : j <= Len(o.results)}}

\* C1: once delete_document(D) has completed, and until D is added again, no
\* search (any query, any top_k, with or without a file_ids filter, whatever
\* was added in between) returns a chunk whose file_id is D.
C1_DeletedNeverReturned == \A d \in deleted : d \notin Searchable

\* a document was deleted, another was added afterwards and a search returned chunks
C1_Witness ==
  /\ deleted # {} /\ Len(index) > 0 /\ Searchable # {}
  /\ seen.at = "idle" /\ seen.results > 0

Without(results, f) == SelectSeq(results, LAMBDA r : r.file_id # f)

\* C2: after delete_document(D) has completed, a search that asks for every
\* stored chunk returns, for the documents other than D, the chunks the same
\* search returned before the deletion, in the same order.
C2_SurvivorsUnchanged ==
  (pc = "idle" /\ pre.taken /\ pre.file_id \in deleted) =>
    \A q \in Queries, fs \in FileFilters :
      Search(index, chunks, q, Len(pre.chunks), fs).results
        = Without(Search(pre.index, pre.chunks, q, Len(pre.chunks), fs).results, pre.file_id)

\* C3: a document that was not stored and whose process_document run died in
\* embedding (on any batch) is returned by no search.
C3_FailedNeverSearchable == \A x \in failedDocs : x.file_id \notin Searchable

\* the embedding of a later batch failed after an earlier batch had succeeded,
\* and the store answers searches with chunks of other documents
C3_Witness ==
  /\ \E x \in failedDocs : x.embedded > 0
  /\ pc = "idle" /\ Searchable # {}

\* all chunks of f have their vector in the index, and index, records and metadata of f are on disk
InIndexAndOnDisk(f) ==
  /\ \A i \in 1..Len(chunks) : chunks[i].file_id = f => i <= Len(index)
  /\ diskIndex.exists /\ diskChunks.exists /\ diskMeta.exists
  /\ Len(diskIndex.vectors) >= Len(index)
  /\ SelectSeq(diskChunks.chunks, LAMBDA c : c.file_id = f)
       = SelectSeq(chunks, LAMBDA c : c.file_id = f)
  /\ f \in DOMAIN diskMeta.documents

\* C4: between writer calls, get_document_status reports completed only for a
\* document whose chunks and embeddings are all in the index and on disk.
C4_ReadyOnlyWhenPersisted ==
  pc = "idle" =>
    \A f \in FileIds :
      GetDocumentStatus(metadata, f).status = "completed" => InIndexAndOnDisk(f)

\* C5: after a completed add_chunks or delete_document, a VectorStore built
\* from the three files holds the vectors, chunk records and metadata of the
\* store in memory, and answers every search alike.
C5_RoundTrip ==
  saved =>
    LET s == LoadStore(diskIndex, diskChunks, diskMeta)
    IN  /\ s = [index |-> index, chunks |-> chunks, metadata |-> metadata]
        /\ \A q \in Queries, k \in 1..MaxTopK, fs \in FileFilters :
             Search(s.index, s.chunks, q, k, fs) = Search(index, chunks, q, k, fs)

\* a save completed with several documents stored
C5_Witness ==
  /\ saved /\ pc = "idle"
  /\ Len(chunks) > 1 /\ Len(index) > 1 /\ Cardinality(DOMAIN metadata.documents) > 1

\* C6: at every moment the three files are those of one completed _save_all
\* (or none exists yet), so a process that stops or a write that fails leaves
\* nothing mixed.
C6_AtomicPersist == DiskTriple = committed

\* C7: no search runs between index.add and the append of the chunk records,
\* nor between the two assignments of _rebuild_index.
C7_NoSearchDuringWrite == seen.at \notin {"add_records", "rebuild_chunks"}

UniqueIds(chs) == \A i, j \in 1..Len(chs) : chs[i].id = chs[j].id => i = j

\* C8: stored chunk ids are pairwise different, and an add_chunks call assigns
\* ids larger than every id assigned before.
C8_UniqueMonotoneIds ==
  [][/\ UniqueIds(chunks')
     /\ (pc = "add_records" /\ pc' = "save_index") => Len(chunks) > maxId]_vars

----------------------------------------------------------------------------
(* ChatContainer (frontend) and stream_chat_response (backend) *)

MaxSends == 1
MaxPrior == 6
MaxUploads == 1
MaxContent == 1

Max(a, b) == IF a > b THEN a ELSE b

\* Array.prototype.slice(start) and Python's seq[start:], start possibly negative
Slice(seq, start) ==
  LET from == IF start < 0 THEN Max(Len(seq) + start, 0) ELSE Min(start, Len(seq))
  IN  SubSeq(seq, from + 1, Len(seq))

\* a history built from the oldest ten messages: slice(0, 10)
BuildHistory_Oldest(msgs) ==
  LET oldest == SubSeq(msgs, 1, Min(10, Len(msgs)))
  IN  [i \in 1..Len(oldest) |-> [role |-> oldest[i].role, content |-> oldest[i].content]]

\* handleSend: messages.slice(-10).map(m => ({role, content}))
BuildHistory(msgs) ==
  LET recent == Slice(msgs, -10)
  IN  [i \in 1..Len(recent) |-> [role |-> recent[i].role, content |-> recent[i].content]]

\* ToonFormatter.format_history: the length header and one role/content row per message
FormatHistory(history) ==
  [n |-> Len(history),
   rows |-> [i \in 1..Len(history) |-> <<history[i].role, history[i].content>>]]

\* chat_stream hands stream_chat_response no summary, and ChatRequest has no field for one
CurrentSummary(req) == ""

\* ToonFormatter.format_context: the length header and one row per chunk
FormatContext(context_chunks) ==
  [n |-> Len(context_chunks),
   rows |-> [i \in 1..Len(context_chunks) |->
               <<context_chunks[i].file_id, context_chunks[i].chunk_index,
                 context_chunks[i].content>>]]

(* Retrieval settings *)
SIMILARITY_THRESHOLD_X10 == 7
MAX_CONTEXT_CHUNKS == 8

\* TOP_K_RESULTS: its default and the upper end of its range
TopKRange == {5, 10}

\* EmbeddingService.embed_query: q1 reads like chunk text 4, q2 like chunk text 5
EmbedQuery(query) == EmbedTexts(<<IF query = "q1" THEN 4 ELSE 5>>)[1]

\* a retrieval step that keeps every search result up to the cap
RetrieveContext_NoThreshold(results) ==
  SubSeq(results, 1, Min(Len(results), MAX_CONTEXT_CHUNKS))

\* the retrieval step on the search results: drop those below
\* similarity_threshold, cap to max_context_chunks
RetrieveContext(results) ==
  LET kept == SelectSeq(results, LAMBDA r : 10 * r.score >= SIMILARITY_THRESHOLD_X10)
  IN  SubSeq(kept, 1, Min(Len(kept), MAX_CONTEXT_CHUNKS))

\* stream_chat_response: the recap, the near context, the retrieved content
\* and the query given to the model
BuildContext(req, context_chunks) ==
  [built |-> TRUE,
   recap |-> CurrentSummary(req),
   history |-> IF req.history # <<>> THEN FormatHistory(Slice(req.history, -10))
               ELSE [n |-> 0, rows |-> <<>>],
   chunks |-> context_chunks,
   content |-> IF context_chunks # <<>> THEN FormatContext(context_chunks)
               ELSE [n |-> 0, rows |-> <<>>],
   query |-> req.query]

\* prev.map(msg => msg.id === id ? {...msg, content: msg.content + data.content} : msg)
AppendContent(msgs, id, tok) ==
  [i \in 1..Len(msgs) |->
     IF msgs[i].id = id THEN [msgs[i] EXCEPT !.content = Append(@, tok)] ELSE msgs[i]]

\* prev.map(msg => msg.id === id ? {...msg, isStreaming: false} : msg)
EndStreaming(msgs, id) ==
  [i \in 1..Len(msgs) |->
     IF msgs[i].id = id THEN [msgs[i] EXCEPT !.isStreaming = FALSE] ELSE msgs[i]]

\* prev.map(msg => msg.id === id ? {...msg, content: text, isStreaming: false} : msg)
ReplaceContent(msgs, id, text) ==
  [i \in 1..Len(msgs) |->
     IF msgs[i].id = id THEN [msgs[i] EXCEPT !.content = text, !.isStreaming = FALSE]
     ELSE msgs[i]]

\* handleFileUploaded
HandleFileUploaded(f) ==
  /\ nUploads < MaxUploads
  /\ nUploads' = nUploads + 1
  /\ clock' = clock + 1
  /\ activeFileId' = f
  /\ messages' = Append(messages, [id |-> [kind |-> "system", t |-> clock],
                                   role |-> "assistant",
                                   content |-> <<"Document Ready!", f>>,
                                   isStreaming |-> FALSE])
  /\ UNCHANGED <<isLoading, chatPc, request, context, timers, assistantId, nContent, nSends>>
  /\ UNCHANGED <<storeVars, chunkerVars, retryVars, readerVars, uploadVars>>

\* handleSend up to the fetch; ChatInput calls it only while isLoading is false
HandleSend(content) ==
  /\ ~isLoading /\ chatPc = "idle"
  /\ nSends < MaxSends
  /\ nSends' = nSends + 1
  /\ clock' = clock + 1
  /\ messages' = Append(messages, [id |-> [kind |-> "user", t |-> clock], role |-> "user",
                                   content |-> <<content>>, isStreaming |-> FALSE])
  /\ isLoading' = TRUE
  /\ assistantId' = [kind |-> "assistant", t |-> clock]
  /\ timers' = timers \cup {[kind |-> "assistant", t |-> clock]}
  /\ request' = [sent |-> TRUE, query |-> content, history |-> BuildHistory(messages),
                 file_ids |-> IF activeFileId # "" THEN {activeFileId} ELSE {},
                 before |-> messages]
  /\ context' = NoContext
  /\ nContent' = 0
  /\ chatPc' = "fetch"
  /\ UNCHANGED <<activeFileId, nUploads>>
  /\ UNCHANGED <<storeVars, chunkerVars, retryVars, readerVars, uploadVars>>

\* the 300 ms timer adds the assistant placeholder
PlaceholderTimer(id) ==
  /\ id \in timers
  /\ timers' = timers \ {id}
  /\ messages' = Append(messages, [id |-> id, role |-> "assistant", content |-> <<>>,
                                   isStreaming |-> TRUE])
  /\ UNCHANGED <<isLoading, chatPc, request, context, clock, assistantId, activeFileId,
                 nContent, nUploads, nSends>>
  /\ UNCHANGED <<storeVars, chunkerVars, retryVars, readerVars, uploadVars>>

\* the backend takes the request, retrieves (use_rag is always true) and
\* builds the messages for the model
ChatStream ==
  /\ chatPc = "fetch"
  /\ \E top_k \in TopKRange :
       LET found == Search(index, chunks, EmbedQuery(request.query), top_k, request.file_ids)
       IN  context' = BuildContext(request, RetrieveContext(found.results))
  /\ chatPc' = "stream"
  /\ UNCHANGED <<messages, isLoading, request, clock, timers, assistantId, activeFileId,
                 nContent, nUploads, nSends>>
  /\ UNCHANGED <<storeVars, chunkerVars, retryVars, readerVars, uploadVars>>

\* a data event with content
StreamContent(tok) ==
  /\ chatPc = "stream" /\ nContent < MaxContent
  /\ nContent' = nContent + 1
  /\ messages' = AppendContent(messages, assistantId, tok)
  /\ UNCHANGED <<isLoading, chatPc, request, context, clock, timers, assistantId,
                 activeFileId, nUploads, nSends>>
  /\ UNCHANGED <<storeVars, chunkerVars, retryVars, readerVars, uploadVars>>

\* a data event with done
StreamDone ==
  /\ chatPc = "stream"
  /\ messages' = EndStreaming(messages, assistantId)
  /\ chatPc' = "closing"
  /\ UNCHANGED <<isLoading, request, context, clock, timers, assistantId, activeFileId,
                 nContent, nUploads, nSends>>
  /\ UNCHANGED <<storeVars, chunkerVars, retryVars, readerVars, uploadVars>>

\* a data event with error
StreamError ==
  /\ chatPc = "stream"
  /\ messages' = ReplaceContent(messages, assistantId, <<"Error: ", "e">>)
  /\ chatPc' = "closing"
  /\ UNCHANGED <<isLoading, request, context, clock, timers, assistantId, activeFileId,
                 nContent, nUploads, nSends>>
  /\ UNCHANGED <<storeVars, chunkerVars, retryVars, readerVars, uploadVars>>

\* reader.read() reports done: the loop ends and the finally block runs
StreamClose ==
  /\ chatPc \in {"stream", "closing"}
  /\ isLoading' = FALSE
  /\ chatPc' = "idle"
  /\ UNCHANGED <<messages, request, context, clock, timers, assistantId, activeFileId,
                 nContent, nUploads, nSends>>
  /\ UNCHANGED <<storeVars, chunkerVars, retryVars, readerVars, uploadVars>>

\* fetch or reader.read() throws, or the response is not ok: catch, then finally
RequestFail ==
  /\ chatPc \in {"fetch", "stream", "closing"}
  /\ messages' = ReplaceContent(messages, assistantId,
                               <<"Sorry, I encountered an error. Please try again.">>)
  /\ isLoading' = FALSE
  /\ chatPc' = "idle"
  /\ UNCHANGED <<request, context, clock, timers, assistantId, activeFileId,
                 nContent, nUploads, nSends>>
  /\ UNCHANGED <<storeVars, chunkerVars, retryVars, readerVars, uploadVars>>

NextChat ==
  \/ \E f \in {"d1"} : HandleFileUploaded(f)
  \/ \E c \in {"q1", "q2"} : HandleSend(c)
  \/ \E id \in timers : PlaceholderTimer(id)
  \/ ChatStream
  \/ \E tok \in {"a"} : StreamContent(tok)
  \/ StreamDone
  \/ StreamError
  \/ StreamClose
  \/ RequestFail

\* the messages of e completed exchanges: a query and its answer each, every
\* second answer the error text of a failed request
PriorMessages(e) ==
  [i \in 1..(2 * e) |->
     IF i % 2 = 1
       THEN [id |-> [kind |-> "user", t |-> i], role |-> "user",
             content |-> <<IF i % 4 = 1 THEN "q1" ELSE "q2">>, isStreaming |-> FALSE]
       ELSE [id |-> [kind |-> "assistant", t |-> i - 1], role |-> "assistant",
             content |-> IF i % 4 = 2 THEN <<"a">>
                         ELSE <<"Sorry, I encountered an error. Please try again.">>,
             isStreaming |-> FALSE]]

\* the documents stored before the conversation, in the order of their processing
StoredDocs == {<<>>, <<"d1">>, <<"d3", "d3", "d1">>}

\* the state of a VectorStore that has stored docs, each with a completed _save_all
StoreHolds(docs) ==
  LET s == StoreWith(docs) IN
  /\ index = s.index /\ chunks = s.chunks /\ metadata = s.metadata
  /\ IF docs = <<>>
       THEN diskIndex = NoFile /\ diskChunks = NoFile /\ diskMeta = NoFile
       ELSE /\ diskIndex = IndexFile(s.index)
            /\ diskChunks = ChunksFile(s.chunks)
            /\ diskMeta = MetaFile(s.metadata)
  /\ pc = "idle" /\ op = NoOp /\ seen = NotSeen
  /\ deleted = {} /\ pre = NoSnapshot
  /\ saved = (docs # <<>>) /\ committed = DiskTriple
  /\ maxId = Len(s.chunks) - 1 /\ failedDocs = {}
  /\ nOps = Len(docs)
  /\ outcome = IF docs = <<>> THEN NoOutcome
               ELSE [call |-> "process", result |-> "returned"]

\* a conversation that has already seen up to MaxPrior exchanges, over a store
\* that holds some documents
LongChatInit ==
  /\ \E docs \in StoredDocs : StoreHolds(docs)
  /\ \E e \in 0..MaxPrior :
       /\ messages = PriorMessages(e)
       /\ clock = 2 * e + 1
  /\ isLoading = FALSE /\ chatPc = "idle"
  /\ request = NoRequest
  /\ context = NoContext
  /\ timers = {} /\ assistantId = NoId /\ activeFileId = ""
  /\ nContent = 0 /\ nUploads = 0 /\ nSends = 0
  /\ ChunkerInit /\ RetryInit /\ ReaderInit /\ UploadInit

ChatSpec == LongChatInit /\ [][NextChat]_vars

\* the turns before the query, as {role, content} pairs
TurnsBefore(req) ==
  [i \in 1..Len(req.before) |-> <<req.before[i].role, req.before[i].content>>]

\* C9: the history handed to generation holds exactly min(N,10) turns, the
\* most recent ones of the N turns before the query, in conversation order.
C9_HistoryWindow ==
  context.built =>
    LET N == Len(request.before)
        n == IF N < 10 THEN N ELSE 10
    IN  /\ context.history.n = n
        /\ Len(context.history.rows) = n
        /\ \A i \in 1..n : context.history.rows[i] = TurnsBefore(request)[N - n + i]

\* a query sent after more than 10 turns, some of them assistant answers, reached generation
C9_Witness ==
  /\ context.built /\ Len(request.before) > 10
  /\ \E i \in 1..Len(request.before) :
       request.before[i].role = "assistant" /\ request.before[i].content # <<>>

\* C10: the context handed to generation has a non-empty summary exactly when
\* more than 10 turns precede the query.
C10_SummaryIffLong ==
  context.built => ((context.recap # "") <=> (Len(request.before) > 10))

\* the turns before the query that reach generation neither verbatim in the
\* history nor through a recap
DroppedTurns(req, ctx) ==
  {i \in 1..Len(req.before) : i <= Len(req.before) - ctx.history.n /\ ctx.recap = ""}

\* C11: every turn that has left the window of the last 10 turns is carried
\* by the summary handed to generation: none is silently dropped.
C11_EvictedTurnsFolded == context.built => DroppedTurns(request, context) = {}

----------------------------------------------------------------------------
(* Properties of search *)

\* queries in every direction
AnyQuery == {[dim |-> Dimension, dir |-> d, mag |-> 2] : d \in 0..3}

\* every stored chunk has its vector at its own position of the index
Aligned == pc = "idle" /\ Len(index) = Len(chunks)

\* positions of the stored chunks of the documents fs
ChunksOf(fs) == {j \in 1..Len(chunks) : chunks[j].file_id \in fs}

\* similarity of the stored chunk at position j to the query q
ScoreAt(j, q) == 1 - (L2Sq(index[j], NormalizeL2(q)) \div 2)

\* C18: while the index holds no vector, every search (any query, top_k and
\* file filter) returns an empty list and raises nothing, also when chunk
\* records are still listed.
C18_EmptyIndexSearch ==
  Len(index) = 0 =>
    \A q \in AnyQuery, k \in 1..MaxTopK, fs \in FileFilters :
      Search(index, chunks, q, k, fs) = [error |-> "none", results |-> <<>>]

\* a search ran on an index emptied by a rebuild, with chunk records left
C18_Witness ==
  /\ Len(index) = 0 /\ Len(chunks) > 0
  /\ seen.at # "none" /\ seen.error = "none" /\ seen.results = 0

\* C12: on a store whose index and chunk list are aligned, a search restricted
\* to the documents fs returns min(top_k, number of stored chunks of fs)
\* results, all of them of fs, and no stored chunk of fs is more similar to
\* the query than a returned one unless top_k chunks at least as similar exist.
C12_FilteredTopK ==
  Aligned =>
    \A q \in AnyQuery, k \in 1..MaxTopK, fs \in FileFilters \ {{}} :
      LET out == Search(index, chunks, q, k, fs)
          n == Min(k, Cardinality(ChunksOf(fs)))
      IN  /\ out.error = "none"
          /\ Len(out.results) = n
          /\ \A i \in 1..Len(out.results) :
               /\ out.results[i].file_id \in fs
               /\ Cardinality({j \in ChunksOf(fs) : ScoreAt(j, q) > out.results[i].score}) < n

\* rank of a document id in the ascending order of ids
DocRank(f) == CHOOSE n \in 0..3 : <<"d0", "d1", "d2", "d3">>[n + 1] = f

\* result a may stand before result b: more similar, or as similar and then
\* lower chunk sequence, or the same sequence and then no higher document id
InDocumentedOrder(a, b) ==
  \/ a.score > b.score
  \/ /\ a.score = b.score
     /\ \/ a.chunk_index < b.chunk_index
        \/ a.chunk_index = b.chunk_index /\ DocRank(a.file_id) <= DocRank(b.file_id)

\* C13: on a store whose index and chunk list are aligned, the results of
\* every search are in descending similarity, equal similarities in ascending
\* chunk sequence and then document id.
C13_ResultOrder ==
  Aligned =>
    \A q \in AnyQuery, k \in 1..MaxTopK, fs \in FileFilters :
      LET res == Search(index, chunks, q, k, fs).results
      IN  \A i, j \in 1..Len(res) : i < j => InDocumentedOrder(res[i], res[j])

----------------------------------------------------------------------------
(* Properties of retrieval *)

\* C14: no chunk whose similarity to the query is below similarity_threshold
\* is in the context handed to generation, and the context holds at most
\* max_context_chunks chunks.
C14_ThresholdAndCap ==
  context.built =>
    /\ \A i \in 1..Len(context.chunks) :
         10 * context.chunks[i].score >= SIMILARITY_THRESHOLD_X10
    /\ Len(context.chunks) <= MAX_CONTEXT_CHUNKS
    /\ context.content.n = Len(context.chunks)

\* a context that reached the cap, built from a store that also holds chunks
\* below the threshold for the query
C14_Witness ==
  /\ context.built /\ Len(context.chunks) = MAX_CONTEXT_CHUNKS
  /\ \E j \in 1..Len(index) :
       10 * ScoreAt(j, EmbedQuery(request.query)) < SIMILARITY_THRESHOLD_X10
  /\ Cardinality({j \in 1..Len(index) :
                    10 * ScoreAt(j, EmbedQuery(request.query)) >= SIMILARITY_THRESHOLD_X10})
       > MAX_CONTEXT_CHUNKS

----------------------------------------------------------------------------
(* Properties of the writer calls' outcomes *)

\* C15: a status query for a document that is not stored and whose latest
\* process_document run died in embedding reports failed.
C15_FailureReported ==
  \A x \in failedDocs : GetDocumentStatus(metadata, x.file_id).status = "failed"

\* the memory and the files of the store
StoreContents == <<index, chunks, metadata, diskIndex, diskChunks, diskMeta>>

\* C16: a delete_document call for an id that has no stored chunk (the only
\* delete call that ends in the step that starts it) ends with an error for
\* the caller and leaves index, chunk records, metadata and files unchanged.
C16_DeleteNotFound ==
  [][(pc = "idle" /\ pc' = "idle" /\ nOps' = nOps + 1 /\ outcome'.call = "delete")
       => (outcome'.result = "raised" /\ StoreContents' = StoreContents)]_vars

\* the step that leaves the shape checks of a running add_chunks call
LeavesShapeChecks == pc = "add_index" /\ pc' # pc /\ outcome' # NoOutcome

\* index.add has appended the normalized embeddings of the call
Inserted ==
  /\ pc' = "add_records"
  /\ index' = index \o [j \in 1..Len(op.embs) |-> NormalizeL2(op.embs[j])]

\* C17 as claimed: add_chunks raises only when the embedding dimension differs
\* from the index dimension, and inserts every other input.
C17_FailsOnlyOnDimension ==
  [][LeavesShapeChecks =>
       IF \E j \in 1..Len(op.embs) : op.embs[j].dim # Dimension
         THEN outcome'.result = "raised"
         ELSE Inserted]_vars

\* C17 as amended: add_chunks raises, changing nothing, exactly when the
\* number of embeddings differs from the number of chunks or the embedding
\* dimension differs from the index dimension; every other input is inserted.
C17_RejectsExactlyMisshapen ==
  [][LeavesShapeChecks =>
       IF \/ Len(op.embs) # Len(op.texts)
          \/ \E j \in 1..Len(op.embs) : op.embs[j].dim # Dimension
         THEN /\ outcome'.result = "raised" /\ pc' = "idle"
              /\ StoreContents' = StoreContents
         ELSE Inserted /\ outcome'.result = "none"]_vars

\* a direct add_chunks call was rejected by a store that holds documents
C17_Witness ==
  /\ outcome = [call |-> "add", result |-> "raised"]
  /\ pc = "idle" /\ Len(index) > 0 /\ Len(chunks) = Len(index)

----------------------------------------------------------------------------
(* TextChunker.chunk_text, on texts shorter than the chunk size *)

MaxPieces == 3

CHUNK_SIZE == 800

IsSpace(c) == c \in {" ", "\n"}

\* str.strip()
Strip(s) ==
  LET solid == {i \in 1..Len(s) : ~IsSpace(s[i])}
  IN  IF solid = {} THEN <<>>
      ELSE SubSeq(s, CHOOSE i \in solid : \A j \in solid : i <= j,
                     CHOOSE i \in solid : \A j \in solid : i >= j)

\* str.split(): the maximal runs without whitespace, in order
PySplit(s) ==
  LET starts == {i \in 1..Len(s) : ~IsSpace(s[i]) /\ (i = 1 \/ IsSpace(s[i - 1]))}
      ends == {i \in 1..Len(s) : ~IsSpace(s[i]) /\ (i = Len(s) \/ IsSpace(s[i + 1]))}
      Nth(S, k) == CHOOSE i \in S : Cardinality({j \in S : j < i}) = k - 1
  IN  [k \in 1..Cardinality(starts) |-> SubSeq(s, Nth(starts, k), Nth(ends, k))]

\* sep.join(words)
RECURSIVE Join(_, _)
Join(words, sep) ==
  IF words = <<>> THEN <<>>
  ELSE IF Len(words) = 1 THEN words[1]
  ELSE words[1] \o sep \o Join(Tail(words), sep)

\* RecursiveCharacterTextSplitter.split_text for a text shorter than
\* chunk_size (CHUNK_SIZE * 4 characters): the splits are merged back into one
\* chunk, stripped; nothing if that is empty
SplitText(s) == IF Strip(s) = <<>> THEN <<>> ELSE <<Strip(s)>>

\* " ".join(chunk.split())
CollapseWhitespace(chunk) == Join(PySplit(chunk), <<" ">>)

\* TextChunker.chunk_text
ChunkTextOf(s) ==
  IF s = <<>> \/ Strip(s) = <<>> THEN <<>>
  ELSE LET splits == SplitText(s)
           collapsed == [i \in 1..Len(splits) |-> CollapseWhitespace(splits[i])]
       IN  SelectSeq(collapsed, LAMBDA c : ~(Len(c) < 50))

\* the runs texts are made of: words of 20 and 60 letters, blanks, line
\* breaks and blank lines
Pieces ==
  {[ch |-> "a", len |-> 20], [ch |-> "b", len |-> 60], [ch |-> " ", len |-> 1],
   [ch |-> " ", len |-> 2], [ch |-> "\n", len |-> 1], [ch |-> "\n", len |-> 2]}

RECURSIVE Expand(_)
Expand(ps) ==
  IF ps = <<>> THEN <<>>
  ELSE [i \in 1..ps[1].len |-> ps[1].ch] \o Expand(Tail(ps))

\* a document was parsed: any text of up to MaxPieces runs
ChunkerStart ==
  /\ \E n \in 0..MaxPieces : \E ps \in [1..n -> Pieces] : full_text = Expand(ps)
  /\ Len(full_text) < CHUNK_SIZE * 4
  /\ produced = <<>> /\ chunkPc = "idle"
  /\ StoreInit /\ ChatInit /\ RetryInit /\ ReaderInit /\ UploadInit

\* process_document calls chunker.chunk_text(text)
ChunkTextCall ==
  /\ chunkPc = "idle"
  /\ produced' = ChunkTextOf(full_text)
  /\ chunkPc' = "done"
  /\ UNCHANGED full_text
  /\ UNCHANGED <<storeVars, chatVars, retryVars, readerVars, uploadVars>>

NextChunker == ChunkTextCall

ChunkerSpec == ChunkerStart /\ [][NextChunker]_vars

\* C19: for a text that is not only whitespace, the chunks chunk_text returns,
\* taken in order (a text shorter than the chunk size has no overlap to
\* remove), hold the words of the text, none missing.
C19_ChunksCoverText ==
  (chunkPc = "done" /\ Strip(full_text) # <<>>) =>
    PySplit(Join(produced, <<" ">>)) = PySplit(full_text)

\* C20: for a text that is not empty or only whitespace, chunk_text returns
\* at least one chunk.
C20_AtLeastOneChunk ==
  (chunkPc = "done" /\ Strip(full_text) # <<>>) => Len(produced) >= 1

----------------------------------------------------------------------------
(* Properties of the scores and of the index/record pairing *)

\* C22: every similarity score a search returns lies in [0, 1], whatever the
\* direction of the (normalized) query relative to the stored vectors.
C22_ScoreInUnitRange ==
  \A q \in AnyQuery, k \in 1..MaxTopK, fs \in FileFilters :
    LET res == Search(index, chunks, q, k, fs).results
    IN  \A i \in 1..Len(res) : res[i].score >= 0 /\ res[i].score <= 1

\* C24: between writer calls the index holds as many vectors as there are
\* chunk records, and the vector at each position is the embedding of the
\* record at that position, so chunks[idx] is the chunk whose vector matched.
C24_IndexMatchesRecords ==
  pc = "idle" =>
    /\ Len(index) = Len(chunks)
    /\ \A i \in 1..Len(index) : index[i] = NormalizeL2(EmbedText(chunks[i].content))

----------------------------------------------------------------------------
(* Properties of handleSend's placeholder *)

\* the messages in the list that carry the id of the latest request's placeholder
Placeholders == {i \in 1..Len(messages) : messages[i].id = assistantId}

\* C27: whenever the placeholder of the request is in the list, it shows every
\* content event sent so far, and once the request has ended it is not left
\* streaming with empty content, whenever its 300 ms timer fired.
C27_NoUpdateLost ==
  request.sent =>
    \A i \in Placeholders :
      /\ chatPc = "stream" => Len(messages[i].content) = nContent
      /\ chatPc = "idle" => ~(messages[i].isStreaming /\ messages[i].content = <<>>)

\* C29: once the request has finished (done event, error event, stream closed
\* without either, or a thrown failure) isLoading is false and the assistant
\* message of the request is not streaming.
C29_FinishedNotStreaming ==
  (request.sent /\ chatPc = "idle") =>
    /\ ~isLoading
    /\ \A i \in Placeholders : ~messages[i].isStreaming

----------------------------------------------------------------------------
(* embed_with_retry: embed_texts under tenacity's retry decorator *)

MaxCalls == 2

\* stop_after_attempt(3)
STOP_AFTER_ATTEMPT == 3

\* the exceptions embed_texts re-raises
EmbedErrors == {"RateLimitError", "APIConnectionError"}

\* the batches process_document embeds
RetryBatches == {<<0>>, <<1, 2>>, SubSeq(DocChunks("d3"), 1, BATCH_SIZE)}

\* a stop condition that allows a fourth attempt
StopAfterAttempt_Four(n) == n >= STOP_AFTER_ATTEMPT + 1

\* stop=stop_after_attempt(3): true once attempt n has been made
StopAfterAttempt(n) == n >= STOP_AFTER_ATTEMPT

\* wait=wait_exponential(multiplier=1, min=2, max=10) after attempt n, in seconds
WaitExponential(n) == Max(2, Min(1 * 2 ^ (n - 1), 10))

\* a caller calls embed_with_retry(texts): the first attempt starts
EmbedWithRetry(texts) ==
  /\ retryPc \in {"idle", "returned", "raised"}
  /\ nCalls < MaxCalls
  /\ nCalls' = nCalls + 1
  /\ retryPc' = "calling"
  /\ attempt_number' = 1
  /\ tried' = <<>> /\ sleepLeft' = 0
  /\ retryTexts' = texts /\ retryResult' = <<>>
  /\ UNCHANGED <<storeVars, chatVars, chunkerVars, readerVars, uploadVars>>

\* embed_texts returns: the call returns its embeddings
AttemptReturns ==
  /\ retryPc = "calling"
  /\ tried' = Append(tried, "ok")
  /\ retryResult' = EmbedTexts(retryTexts)
  /\ retryPc' = "returned"
  /\ UNCHANGED <<attempt_number, sleepLeft, retryTexts, nCalls>>
  /\ UNCHANGED <<storeVars, chatVars, chunkerVars, readerVars, uploadVars>>

\* embed_texts raises e: RetryError for the caller if the stop condition
\* holds, the wait before the next attempt otherwise
AttemptRaises(e) ==
  /\ retryPc = "calling"
  /\ tried' = Append(tried, e)
  /\ IF StopAfterAttempt(attempt_number)
       THEN /\ retryPc' = "raised"
            /\ retryResult' = <<"RetryError", e>>
            /\ UNCHANGED <<attempt_number, sleepLeft>>
       ELSE /\ retryPc' = "sleeping"
            /\ sleepLeft' = WaitExponential(attempt_number)
            /\ attempt_number' = attempt_number + 1
            /\ UNCHANGED retryResult
  /\ UNCHANGED <<retryTexts, nCalls>>
  /\ UNCHANGED <<storeVars, chatVars, chunkerVars, readerVars, uploadVars>>

\* a second of the wait passes; after the last one the next attempt starts
SleepTick ==
  /\ retryPc = "sleeping"
  /\ sleepLeft' = sleepLeft - 1
  /\ retryPc' = IF sleepLeft - 1 = 0 THEN "calling" ELSE "sleeping"
  /\ UNCHANGED <<attempt_number, tried, retryTexts, retryResult, nCalls>>
  /\ UNCHANGED <<storeVars, chatVars, chunkerVars, readerVars, uploadVars>>

AttemptEnds == AttemptReturns \/ \E e \in EmbedErrors : AttemptRaises(e)

NextRetry ==
  \/ \E texts \in RetryBatches : EmbedWithRetry(texts)
  \/ AttemptReturns
  \/ \E e \in EmbedErrors : AttemptRaises(e)
  \/ SleepTick

\* every attempt ends (the client's request times out if nothing answers) and
\* every wait ends
RetrySpec ==
  /\ Init /\ [][NextRetry]_vars
  /\ WF_vars(AttemptEnds) /\ WF_vars(SleepTick)

AllFailed == \A i \in 1..Len(tried) : tried[i] # "ok"

\* C21: a call of embed_with_retry makes at most 3 attempts; when all of them
\* fail the caller gets the failure at once, and every call ends, returning or
\* raising.
C21_RetryBounded ==
  /\ [](Len(tried) <= 3 /\ attempt_number <= 3)
  /\ []((Len(tried) = 3 /\ AllFailed) <=> retryPc = "raised")
  /\ [](retryPc = "raised" => retryResult[1] = "RetryError")
  /\ (retryPc \in {"calling", "sleeping"} ~> retryPc \in {"returned", "raised"})

\* three attempts failed and the caller got the failure
C21_Witness ==
  /\ retryPc = "raised" /\ Len(tried) = 3 /\ AllFailed
  /\ retryResult[1] = "RetryError"

----------------------------------------------------------------------------
(* handleSend's stream reader loop, on the characters of the response body *)

MaxEvents == 2
MaxReads == 2

\* the line of a data event; the JSON object is three characters, "{", one
\* for its field ("!" for done: true, a letter for content) and "}"
EventLine(ev) ==
  <<"d", "a", "t", "a", ":", " ", "{", IF ev.kind = "done" THEN "!" ELSE ev.tok, "}">>

\* the response body: every event as its line and a blank line
RECURSIVE Body(_)
Body(evs) ==
  IF evs = <<>> THEN <<>>
  ELSE EventLine(Head(evs)) \o <<"\n", "\n">> \o Body(Tail(evs))

\* chunk.split('\n')
SplitLines(chunk) ==
  LET nl == {i \in 1..Len(chunk) : chunk[i] = "\n"}
      Cut(k) == IF k = 0 THEN 0
                ELSE IF k > Cardinality(nl) THEN Len(chunk) + 1
                ELSE CHOOSE i \in nl : Cardinality({j \in nl : j < i}) = k - 1
  IN  [k \in 1..(Cardinality(nl) + 1) |-> SubSeq(chunk, Cut(k - 1) + 1, Cut(k) - 1)]

\* line.startsWith('data: ')
StartsWithData(line) ==
  Len(line) >= 6 /\ SubSeq(line, 1, 6) = <<"d", "a", "t", "a", ":", " ">>

\* JSON.parse: throws unless the text is a whole object
JsonParse(s) ==
  IF Len(s) = 3 /\ s[1] = "{" /\ s[3] = "}"
    THEN [ok |-> TRUE, kind |-> IF s[2] = "!" THEN "done" ELSE "content", tok |-> s[2]]
    ELSE [ok |-> FALSE, kind |-> "", tok |-> ""]

\* the pieces of the body the transport hands to reader.read(), cut after the
\* positions cuts
Deliver(body, cuts) ==
  LET Cut(k) == IF k = 0 THEN 0
                ELSE IF k > Cardinality(cuts) THEN Len(body)
                ELSE CHOOSE i \in cuts : Cardinality({j \in cuts : j < i}) = k - 1
  IN  [k \in 1..(Cardinality(cuts) + 1) |-> SubSeq(body, Cut(k - 1) + 1, Cut(k))]

\* for (const line of lines): the updates of one read
RECURSIVE ApplyLines(_, _, _)
ApplyLines(lines, msgs, id) ==
  IF lines = <<>> THEN msgs
  ELSE LET line == Head(lines)
           data == JsonParse(Slice(line, 6))
           next == IF StartsWithData(line) /\ data.ok
                     THEN IF data.kind = "content" THEN AppendContent(msgs, id, data.tok)
                          ELSE EndStreaming(msgs, id)
                     ELSE msgs
       IN  ApplyLines(Tail(lines), next, id)

\* the request is open and its placeholder is in the list; the server has
\* written up to MaxEvents content events and a done event, and the body
\* arrives in up to MaxReads pieces
ReaderStart ==
  /\ StoreInit /\ ChunkerInit /\ RetryInit /\ UploadInit
  /\ \E n \in 1..MaxEvents : \E toks \in [1..n -> {"x", "y"}] :
       /\ events = [i \in 1..n |-> [kind |-> "content", tok |-> toks[i]]]
                     \o <<[kind |-> "done", tok |-> ""]>>
       /\ nContent = n
  /\ \E k \in 0..(MaxReads - 1) : \E at \in [1..k -> 1..(Len(Body(events)) - 1)] :
       /\ \A i \in 1..(k - 1) : at[i] < at[i + 1]
       /\ reads = Deliver(Body(events), {at[i] : i \in 1..k})
  /\ request = [sent |-> TRUE, query |-> "q1", history |-> <<>>, file_ids |-> {},
                before |-> <<>>]
  /\ context = BuildContext(request, <<>>)
  /\ assistantId = [kind |-> "assistant", t |-> 0]
  /\ messages = <<[id |-> [kind |-> "user", t |-> 0], role |-> "user",
                   content |-> <<"q1">>, isStreaming |-> FALSE],
                  [id |-> assistantId, role |-> "assistant", content |-> <<>>,
                   isStreaming |-> TRUE]>>
  /\ isLoading = TRUE /\ chatPc = "stream"
  /\ clock = 1 /\ timers = {} /\ activeFileId = ""
  /\ nUploads = 0 /\ nSends = 1

\* reader.read() returns a piece: decode, split into lines, apply each line
ReadChunk ==
  /\ chatPc = "stream" /\ reads # <<>>
  /\ messages' = ApplyLines(SplitLines(Head(reads)), messages, assistantId)
  /\ reads' = Tail(reads)
  /\ UNCHANGED <<isLoading, chatPc, request, context, clock, timers, assistantId,
                 activeFileId, nContent, nUploads, nSends, events>>
  /\ UNCHANGED <<storeVars, chunkerVars, retryVars, uploadVars>>

\* reader.read() reports done: break, then finally
ReadDone ==
  /\ chatPc = "stream" /\ reads = <<>>
  /\ isLoading' = FALSE
  /\ chatPc' = "idle"
  /\ UNCHANGED <<messages, request, context, clock, timers, assistantId,
                 activeFileId, nContent, nUploads, nSends, events, reads>>
  /\ UNCHANGED <<storeVars, chunkerVars, retryVars, uploadVars>>

NextReader == ReadChunk \/ ReadDone

ReaderSpec == ReaderStart /\ [][NextReader]_vars

\* the content fields of the events, in the order sent
ContentSent(evs) ==
  LET cs == SelectSeq(evs, LAMBDA ev : ev.kind = "content")
  IN  [i \in 1..Len(cs) |-> cs[i].tok]

\* C28: when the stream has been read to its end, the content of the
\* assistant message is the concatenation, in order, of the content fields of
\* the events the server sent, wherever the body was cut into reads.
C28_ContentIsConcatenation ==
  (events # <<>> /\ chatPc = "idle") =>
    \A i \in Placeholders : messages[i].content = ContentSent(events)

----------------------------------------------------------------------------
(* DocumentUpload (frontend) with the upload, analyze and status endpoints. *)
(* The uuid4 name save_upload_file gives the upload of a document is        *)
(* written as the document itself: every document is uploaded once.         *)
(* Entries stay in the list: handleRemove is left out.                      *)

\* maxAttempts of pollStatus
maxAttempts == 60

\* `temp-${Date.now()}`
TempId(t) == [kind |-> "temp", t |-> t, f |-> ""]

\* data.file_id as an entry id
FileId(f) == [kind |-> "file", t |-> 0, f |-> f]

\* what one drop or one file selection carries
Drops == {<<"d1">>, <<"d2">>, <<"d1", "d2">>}

Uploaded == {uploadTasks[u].name : u \in 1..Len(uploadTasks)}

\* prev.map(f => f.id === ... ? {...f, id: newId, status} : f)
SetEntry(list, ids, newId, status) ==
  [i \in 1..Len(list) |->
     IF list[i].id \in ids THEN [list[i] EXCEPT !.id = newId, !.status = status]
     ELSE list[i]]

\* prev.map(f => f.id === tempId ? {...f, status: 'error', error} : f)
SetError(list, id) ==
  [i \in 1..Len(list) |->
     IF list[i].id = id THEN [list[i] EXCEPT !.status = "error"] ELSE list[i]]

\* a handleFileUpload call that has ended: its locals are gone
Ended(name) == [name |-> name, tempId |-> TempId(0), closure |-> <<>>, pc |-> "ended",
                attempts |-> 0]

\* handleDrop's droppedFiles.forEach(handleFileUpload), or the file input's
\* onChange with one file: every call runs to its fetch; Date.now() may or
\* may not have advanced between two calls of the same loop and has advanced
\* between two events, and every call closes over the files of the render
\* that received the event
HandleDrop(names, later) ==
  /\ \A i \in 1..Len(names) : names[i] \notin Uploaded
  /\ LET stamp == [i \in 1..Len(names) |-> IF i = 1 THEN clock ELSE clock + later]
     IN  /\ files' = files \o [i \in 1..Len(names) |->
                                 [id |-> TempId(stamp[i]), name |-> names[i],
                                  status |-> "uploading"]]
         /\ uploadTasks' = uploadTasks \o [i \in 1..Len(names) |->
                                 [name |-> names[i], tempId |-> TempId(stamp[i]),
                                  closure |-> files, pc |-> "posting", attempts |-> 0]]
         /\ clock' = stamp[Len(names)] + 1
  /\ UNCHANGED <<uploadDir, analysis, served, observed, notified>>
  /\ UNCHANGED <<messages, isLoading, chatPc, request, context, timers, assistantId,
                 activeFileId, nContent, nUploads, nSends>>
  /\ UNCHANGED <<storeVars, chunkerVars, retryVars, readerVars>>

\* POST /api/upload answers 200: save_upload_file has removed every file of
\* UPLOAD_DIR and written this one; the entry with the temp id takes the file
\* id and pollStatus starts
UploadResponds(u) ==
  /\ uploadTasks[u].pc = "posting"
  /\ uploadDir' = {uploadTasks[u].name}
  /\ served' = Append(served, [req |-> "upload", f |-> uploadTasks[u].name])
  /\ files' = SetEntry(files, {uploadTasks[u].tempId}, FileId(uploadTasks[u].name), "processing")
  /\ uploadTasks' = [uploadTasks EXCEPT ![u].pc = "polling"]
  /\ UNCHANGED <<analysis, observed, notified>>
  /\ UNCHANGED <<storeVars, chatVars, chunkerVars, retryVars, readerVars>>

\* the upload is refused (validate_file) or fetch throws: the catch block
UploadFails(u) ==
  /\ uploadTasks[u].pc = "posting"
  /\ files' = SetError(files, uploadTasks[u].tempId)
  /\ uploadTasks' = [uploadTasks EXCEPT ![u] = Ended(@.name)]
  /\ UNCHANGED <<uploadDir, analysis, served, observed, notified>>
  /\ UNCHANGED <<storeVars, chatVars, chunkerVars, retryVars, readerVars>>

\* POST /api/analyze for an uploaded file, by whoever knows its id: 404 if the
\* file is not in UPLOAD_DIR, a background task otherwise
AnalyzeDocument(f) ==
  /\ [req |-> "upload", f |-> f] \in {served[i] : i \in 1..Len(served)}
  /\ analysis[f] = "none"
  /\ analysis' = [analysis EXCEPT ![f] = IF f \in uploadDir THEN "processing" ELSE "404"]
  /\ served' = Append(served, [req |-> "analyze", f |-> f])
  /\ UNCHANGED <<files, uploadTasks, uploadDir, observed, notified>>
  /\ UNCHANGED <<storeVars, chatVars, chunkerVars, retryVars, readerVars>>

\* the background task process_document runs to its end: parse raises if the
\* file has been removed since, otherwise the chunks are embedded and stored
ProcessDocument(f) ==
  /\ analysis[f] = "processing"
  /\ pc = "idle"
  /\ IF f \notin uploadDir
       THEN /\ analysis' = [analysis EXCEPT ![f] = "no_file"]
            /\ outcome' = [call |-> "process", result |-> "raised"]
            /\ UNCHANGED <<index, chunks, metadata, diskIndex, diskChunks, diskMeta,
                           saved, committed, maxId>>
       ELSE LET s == AddChunks([index |-> index, chunks |-> chunks, metadata |-> metadata], f)
            IN  /\ analysis' = [analysis EXCEPT ![f] = "completed"]
                /\ index' = s.index /\ chunks' = s.chunks /\ metadata' = s.metadata
                /\ diskIndex' = IndexFile(s.index)
                /\ diskChunks' = ChunksFile(s.chunks)
                /\ diskMeta' = MetaFile(s.metadata)
                /\ saved' = TRUE
                /\ committed' = <<IndexFile(s.index), ChunksFile(s.chunks), MetaFile(s.metadata)>>
                /\ maxId' = Len(s.chunks) - 1
                /\ outcome' = [call |-> "process", result |-> "returned"]
  /\ UNCHANGED <<pc, op, seen, deleted, pre, failedDocs, nOps>>
  /\ UNCHANGED <<files, uploadTasks, uploadDir, served, observed, notified>>
  /\ UNCHANGED <<chatVars, chunkerVars, retryVars, readerVars>>

\* the background task dies in embedding
ProcessFails(f) ==
  /\ analysis[f] = "processing"
  /\ pc = "idle"
  /\ f \in uploadDir
  /\ analysis' = [analysis EXCEPT ![f] = "failed"]
  /\ outcome' = [call |-> "process", result |-> "raised"]
  /\ failedDocs' = failedDocs \cup {[file_id |-> f, embedded |-> 0]}
  /\ UNCHANGED <<index, chunks, metadata, diskIndex, diskChunks, diskMeta, pc, op, seen,
                 deleted, pre, saved, committed, maxId, nOps>>
  /\ UNCHANGED <<files, uploadTasks, uploadDir, served, observed, notified>>
  /\ UNCHANGED <<chatVars, chunkerVars, retryVars, readerVars>>

\* files.find(f => f.id === tempId || f.id === fileId) over the files the
\* running call closed over
FindEntry(list, ids) ==
  LET hits == SelectSeq(list, LAMBDA e : e.id \in ids)
  IN  IF hits = <<>> THEN [found |-> FALSE, name |-> ""]
      ELSE [found |-> TRUE, name |-> hits[1].name]

\* checkStatus gets an answer from /api/analyze/status: completed marks the
\* entry and notifies the parent if the entry is found, anything else counts
\* an attempt and re-arms the timer while attempts < maxAttempts
CheckStatus(u) ==
  /\ uploadTasks[u].pc = "polling"
  /\ LET t == uploadTasks[u]
         fileId == FileId(t.name)
         file == FindEntry(t.closure, {t.tempId, fileId})
     IN  IF GetDocumentStatus(metadata, t.name).status = "completed"
           THEN /\ files' = SetEntry(files, {fileId, t.tempId}, fileId, "completed")
                /\ observed' = Append(observed, t.name)
                /\ uploadTasks' = [uploadTasks EXCEPT ![u] = Ended(t.name)]
                /\ IF file.found
                     THEN /\ notified' = Append(notified, [file_id |-> t.name, name |-> file.name])
                          /\ activeFileId' = t.name
                          /\ messages' = Append(messages,
                                                [id |-> [kind |-> "system", t |-> clock],
                                                 role |-> "assistant",
                                                 content |-> <<"Document Ready!", file.name>>,
                                                 isStreaming |-> FALSE])
                          /\ nUploads' = nUploads + 1
                     ELSE UNCHANGED <<notified, activeFileId, messages, nUploads>>
           ELSE /\ uploadTasks' = [uploadTasks EXCEPT
                                     ![u] = IF t.attempts + 1 < maxAttempts
                                              THEN [t EXCEPT !.attempts = t.attempts + 1]
                                              ELSE Ended(t.name)]
                /\ UNCHANGED <<files, observed, notified, activeFileId, messages, nUploads>>
  /\ UNCHANGED <<uploadDir, analysis, served>>
  /\ UNCHANGED <<isLoading, chatPc, request, context, clock, timers, assistantId,
                 nContent, nSends>>
  /\ UNCHANGED <<storeVars, chunkerVars, retryVars, readerVars>>

\* the status request throws: the catch block logs and nothing else happens
CheckStatusFails(u) ==
  /\ uploadTasks[u].pc = "polling"
  /\ uploadTasks' = [uploadTasks EXCEPT ![u] = Ended(@.name)]
  /\ UNCHANGED <<files, uploadDir, analysis, served, observed, notified>>
  /\ UNCHANGED <<storeVars, chatVars, chunkerVars, retryVars, readerVars>>

NextUpload ==
  \/ \E names \in Drops, later \in {0, 1} : HandleDrop(names, later)
  \/ \E u \in 1..Len(uploadTasks) : UploadResponds(u)
  \/ \E u \in 1..Len(uploadTasks) : UploadFails(u)
  \/ \E f \in Docs : AnalyzeDocument(f)
  \/ \E f \in Docs : ProcessDocument(f)
  \/ \E f \in Docs : ProcessFails(f)
  \/ \E u \in 1..Len(uploadTasks) : CheckStatus(u)
  \/ \E u \in 1..Len(uploadTasks) : CheckStatusFails(u)

UploadSpec == Init /\ [][NextUpload]_vars

----------------------------------------------------------------------------
(* Properties of uploading and analysing *)

\* the documents whose request req the backend has answered
ServedFor(req) == {served[i].f : i \in {j \in 1..Len(served) : served[j].req = req}}

\* every upload was answered before the first analyze request
UploadsThenAnalyses ==
  \A i, j \in 1..Len(served) :
    (served[i].req = "upload" /\ served[j].req = "analyze") => i < j

\* the documents some search returns together
ReturnedTogether ==
  {{out.results[i].file_id : i \in 1..Len(out.results)} :
     out \in {Search(index, chunks, q, MaxTopK, {}) : q \in AnyQuery}}

\* C23: when all documents have been uploaded, then all analysed, and no
\* embedding call failed, every document has status completed and some
\* search returns chunks of more than one document.
C23_AllUploadsProcessed ==
  (/\ ServedFor("upload") = Docs /\ UploadsThenAnalyses
   /\ \A f \in Docs : analysis[f] \notin {"none", "processing", "failed"})
  => /\ \A f \in Docs : GetDocumentStatus(metadata, f).status = "completed"
     /\ \E fs \in ReturnedTogether : Cardinality(fs) > 1

\* C25: every file a status poll saw completed was passed to onFileUploaded
\* with its id and name, and activeFileId is the latest of them.
C25_CompletedNotifiesChat ==
  /\ \A i \in 1..Len(observed) :
       \E j \in 1..Len(notified) :
         notified[j] = [file_id |-> observed[i], name |-> observed[i]]
  /\ observed # <<>> => activeFileId = observed[Len(observed)]

\* C26: once every handleFileUpload call has ended (upload refused, status
\* request failed, ingestion failed or not, maxAttempts polls made), every
\* entry of the list shows completed or error.
C26_EntriesEndCompletedOrError ==
  (\A u \in 1..Len(uploadTasks) : uploadTasks[u].pc = "ended") =>
    \A i \in 1..Len(files) : files[i].status \in {"completed", "error"}

\* C30: the entries of the upload list have pairwise different ids, and a
\* step of the upload of one file changes no entry of another file.
C30_EntriesIndependent ==
  [][/\ \A i, j \in 1..Len(files') : files'[i].id = files'[j].id => i = j
     /\ \A i \in 1..Len(files) :
          files'[i] # files[i] =>
            \E u \in 1..Len(uploadTasks) :
              uploadTasks'[u] # uploadTasks[u] /\ uploadTasks[u].name = files[i].name]_vars

====
